---- MODULE Spec2Model ----
(***************************************************************************)
(* The skin-analysis service of Derma-Assist-AI: analyzeSkinImage, the      *)
(* model cascade tryGroqAnalysis it drives and the normalisation of the     *)
(* model's reply.  The repository holds three variants of the service       *)
(* (src/geminiService.ts, src/unnamed/part_000, src/unnamed/part_001); the  *)
(* variable `variant` says which one runs.                                  *)
(*                                                                          *)
(* One invocation of analyzeSkinImage is followed from its call to the      *)
(* settling of its promise.  Each action is one synchronous run of the      *)
(* code between two suspension points (await compressImage, await fetch,    *)
(* await response.text(), await response.json()).                           *)
(*                                                                          *)
(* Beside Spec, three specifications look at parts on their own:            *)
(* SpecCompress at compressImage over the decoded sizes, SpecCompare at the *)
(* ProgressionCompare component and the compareProgression it awaits,       *)
(* SpecDuo at two invocations of analyzeSkinImage interleaved at their      *)
(* awaits.                                                                  *)
(*                                                                          *)
(* JavaScript values: an object is a function from the keys it owns to      *)
(* their values, so a missing property is a key outside DOMAIN; a string    *)
(* that the code searches or interpolates (an error message, a              *)
(* description) is a sequence of tokens; null is the Error-shaped value     *)
(* Null, whose property reads raise a TypeError.                            *)
(***************************************************************************)
EXTENDS Integers, Sequences, FiniteSets, TLC

VARIABLES
    variant,          \* which variant of the service module is loaded
    GROQ_API_KEY,     \* import.meta.env.VITE_GROQ_API_KEY ("" when not configured)
    pc,               \* the suspension point analyzeSkinImage is parked at
    compressedImage,  \* const compressedImage ("" before it is assigned)
    modelIdx,         \* position of the for..of loop in VISION_MODELS (0: not in the loop)
    lastError,        \* let lastError of tryGroqAnalysis
    response,         \* status of the Response whose body is being read (0: none)
    attempts,         \* history: one entry per fetch issued, with what came back
    thrown,           \* history: what tryGroqAnalysis threw to its caller
    alerts,           \* history: the alert() calls made
    data,             \* const data: what tryGroqAnalysis returned
    promise,          \* the promise analyzeSkinImage returned
    \* compressImage, looked at on its own:
    base64Str,        \* its argument, as a sequence of pieces of the string
    img,              \* const img = new Image()
    canvas,           \* const canvas (300 x 150 until it is sized)
    compressed,       \* the promise compressImage returned
    \* the ProgressionCompare component:
    entries,          \* the entries prop: the imageData of each timeline entry
    idx1,             \* useState(0)
    idx2,             \* useState(entries.length - 1)
    report,           \* useState(null)
    loading,          \* useState(false)
    inflight,         \* the compareProgression calls awaited by handleCompare
    reportFor,        \* history: the two images `report` was computed from
    mounted,          \* FALSE once a render has thrown
    \* a second invocation of analyzeSkinImage:
    parked            \* its locals while the first one runs (see Switch)

serviceVars == <<variant, GROQ_API_KEY, pc, compressedImage, modelIdx, lastError,
                 response, attempts, thrown, alerts, data, promise>>

imageVars == <<base64Str, img, canvas, compressed>>

compareVars == <<entries, idx1, idx2, report, loading, inflight, reportFor, mounted>>

vars == <<serviceVars, imageVars, compareVars, parked>>

\* What a step of analyzeSkinImage leaves alone.
outsideService == <<imageVars, compareVars, parked>>

\* What a step of compressImage leaves alone.
outsideImage == <<serviceVars, compareVars, parked>>

\* What a step of ProgressionCompare leaves alone.
outsideCompare == <<serviceVars, imageVars, parked>>

-----------------------------------------------------------------------------
(* Bounds of the inputs.                                                   *)

\* At most this many of the six guidance arrays of a model reply are
\* missing or empty; the others carry content.
MaxDefects == 2

-----------------------------------------------------------------------------
(* Variants and module constants.                                          *)

Variants == {"geminiService.ts", "part_000", "part_001"}

VISION_MODELS ==
    CASE variant = "geminiService.ts" ->
           << "llama-3.2-90b-vision-preview",
              "meta-llama/llama-4-scout-17b-16e-instruct",
              "llama-3.2-11b-vision-preview" >>
      [] variant = "part_000" ->
           << "meta-llama/llama-3.2-11b-vision-preview",
              "llama-3.2-90b-vision-preview",
              "llama-guard-3-8b" >>
      [] variant = "part_001" ->
           << "meta-llama/llama-4-scout-17b-16e-instruct",
              "llama-3.2-90b-vision-preview",
              "llama-3.2-11b-vision-preview" >>

\* The caller's image and what canvas.toDataURL makes of it.
base64Image == "data:image/png;base64,AAAA"
toDataURL == "data:image/jpeg;base64,ZZZZ"

-----------------------------------------------------------------------------
(* Errors.                                                                 *)

Null == [name |-> "null", message |-> << >>]

Error(msg) == [name |-> "Error", message |-> msg]

\* fetch() rejecting: the transport failed.
NetworkError == [name |-> "TypeError", message |-> << "Failed to fetch" >>]

\* response.json() rejecting: the body is not JSON.
BodySyntaxError == [name |-> "SyntaxError", message |-> << "Unexpected token < in JSON" >>]

\* JSON.parse(content) throwing.
ContentSyntaxError == [name |-> "SyntaxError", message |-> << "Unexpected token in JSON" >>]

\* data.choices[0].message read on an envelope without choices.
EnvelopeTypeError ==
    [name |-> "TypeError", message |-> << "Cannot read properties of undefined" >>]

\* error.message read when error is null.
NullTypeError ==
    [name |-> "TypeError", message |-> << "Cannot read properties of null" >>]

\* String.prototype.includes on a message.
includes(message, token) == \E i \in DOMAIN message : message[i] = token

CredentialError ==
    IF variant = "geminiService.ts"
    THEN Error(<< "CRITICAL: ", "API Key", " Restricted or Invalid." >>)
    ELSE Error(<< "CRITICAL: ", "API Key", " Restricted." >>)

GroqError(status, errText) ==
    Error(<< "Groq Error (", ToString(status), "): " >> \o errText)

-----------------------------------------------------------------------------
(* JavaScript objects.                                                     *)

Has(o, k) == k \in DOMAIN o

\* { ...o, ...p }: the properties of o, those of p written over them.
Assign(o, p) ==
    [k \in DOMAIN o \cup DOMAIN p |-> IF k \in DOMAIN p THEN p[k] ELSE o[k]]

\* o.k?.length is truthy: the array is there and holds something.
HasLength(o, k) == Has(o, k) /\ Len(o[k]) > 0

\* o.k || []  (an array, even an empty one, is truthy).
OrEmptyArray(o, k) == IF Has(o, k) THEN o[k] ELSE << >>

\* o.k || dflt for a string-valued property ("" and a missing one are falsy).
OrDefault(o, k, empty, dflt) == IF Has(o, k) /\ o[k] # empty THEN o[k] ELSE dflt

-----------------------------------------------------------------------------
(* What the inference service can answer.                                  *)

\* HTTP statuses the endpoint answers with.
Statuses == {200, 400, 401, 403, 404, 429, 500}

\* Response.ok
ok(status) == status \in 200..299

\* Bodies of a non-2xx answer, as response.text() gives them.
ErrTexts == { << "rate limit reached" >>, << "Invalid ", "API Key" >> }

ArrayKeys == {"symptoms", "reasons", "precautions", "prevention", "treatments", "medicines"}

\* The content a model writes into a guidance array.
modelItems == << "model point" >>

\* A reply object of the model: `missing` arrays are left out, `empty` ones are [].
Reply(isSkin, isHealthy, named, described, missing, empty) ==
    LET keys == {"isSkin", "isHealthy", "healingPeriod"}
                  \cup (IF named THEN {"diseaseName"} ELSE {})
                  \cup (IF described THEN {"description"} ELSE {})
                  \cup (ArrayKeys \ missing)
    IN  [k \in keys |->
           CASE k = "isSkin" -> isSkin
             [] k = "isHealthy" -> isHealthy
             [] k = "healingPeriod" -> "2 weeks"
             [] k = "diseaseName" -> "Eczema"
             [] k = "description" -> << "Dry, itchy patches." >>
             [] k \in empty -> << >>
             [] OTHER -> modelItems]

\* The pairs <<missing, empty>> of disjoint sets of arrays, MaxDefects at most in all.
Defects ==
    { <<m, x \ m>> : <<x, m>> \in
        { y \in (SUBSET ArrayKeys) \X (SUBSET ArrayKeys) :
            y[2] \subseteq y[1] /\ Cardinality(y[1]) <= MaxDefects } }

Replies ==
    { Reply(s, h, n, d, f[1], f[2]) :
        s \in BOOLEAN, h \in BOOLEAN, n \in BOOLEAN, d \in BOOLEAN, f \in Defects }

EmptyObject == [k \in {} |-> << >>]

\* choices[0].message.content of a chat-completion body: a JSON text (held
\* as the object it denotes) or a text JSON.parse refuses.
JsonContent(reply) == [json |-> TRUE, value |-> reply]
ProseContent == [json |-> FALSE, value |-> EmptyObject]

\* A 2xx body as response.json() meets it: not JSON at all, a JSON
\* envelope without choices, or a chat completion.
NotJsonBody == [json |-> FALSE, choices |-> << >>]
Envelope(choices) == [json |-> TRUE, choices |-> choices]
Completion(content) == Envelope(<< [message |-> [content |-> content]] >>)

OkBodies ==
    {NotJsonBody, Envelope(<< >>), Completion(ProseContent)}
      \cup { Completion(JsonContent(r)) : r \in Replies }

-----------------------------------------------------------------------------
(* The promise of analyzeSkinImage and the normalisation of a reply.       *)

Pending == [state |-> "pending", value |-> EmptyObject, reason |-> Null]
Fulfilled(value) == [state |-> "fulfilled", value |-> value, reason |-> Null]
Rejected(reason) == [state |-> "rejected", value |-> EmptyObject, reason |-> reason]

\* How a run of analyzeSkinImage ends: its promise and the alerts it raised.
Outcome(p, a) == [promise |-> p, alerts |-> a]

\* The record returned when GROQ_API_KEY is falsy.
KeyMissing ==
    Outcome(Fulfilled([isSkin |-> FALSE, isHealthy |-> FALSE, diseaseName |-> "Error",
                       description |-> << "Key Missing" >>]),
            << << "CRITICAL: Groq API Key is missing." >> >>)

\* The catch block of analyzeSkinImage.  Reading error.message of null
\* raises inside the catch block, and the promise rejects.
CatchOutcome(error) ==
    IF error = Null
    THEN Outcome(Rejected(NullTypeError), << >>)
    ELSE IF variant = "part_000"
    THEN Outcome(Fulfilled(
             [isSkin |-> FALSE, isHealthy |-> FALSE, diseaseName |-> "Analysis Failed",
              description |-> << "The AI could not complete the scan. Reason: " >>
                                \o (IF error.message = << >> THEN << "Network Error" >>
                                                             ELSE error.message)
                                \o << "." >>,
              symptoms |-> << >>, reasons |-> << >>, treatments |-> << >>,
              medicines |-> << >>, precautions |-> << >>, prevention |-> << >>,
              healingPeriod |-> "Unknown"]),
           << >>)
    ELSE Outcome(Fulfilled(
             [isSkin |-> FALSE, isHealthy |-> FALSE, diseaseName |-> "Analysis Error",
              description |-> error.message]),
           << << "Analysis Failed: " >> \o error.message >>)

defaultAdvice ==
    << "Maintain daily hygiene", "Use sunscreen (SPF 50)", "Drink 3L water daily" >>

\* Backfill that writes over what the model supplied.
BackfillAlways(result, k, dflt) == Assign(result, [x \in {k} |-> dflt])

\* part_001: if (!result.k?.length) result.k = dflt
Backfill(result, k, dflt) ==
    IF HasLength(result, k) THEN result ELSE Assign(result, [x \in {k} |-> dflt])

\* What analyzeSkinImage returns for the parsed reply `result`.
NormalizeGemini(result) ==
    IF result.isSkin = FALSE
    THEN Assign(result,
           [isHealthy |-> FALSE, diseaseName |-> "No Skin Detected",
            description |-> << "The AI could not identify human skin texture in this image." >>])
    ELSE result

NormalizePart000(result) ==
    IF result.isSkin = FALSE
    THEN LET r == Backfill(result, "reasons",
                     << "Scan Failed: The image quality was too low to identify skin." >>)
         IN  Assign(r,
               [isHealthy |-> FALSE,
                diseaseName |-> OrDefault(r, "diseaseName", "", "No Skin Detected"),
                description |-> OrDefault(r, "description", << >>,
                                  << "The analysis could not identify human skin." >>),
                symptoms |-> OrEmptyArray(r, "symptoms"),
                treatments |-> << >>,
                medicines |-> << >>,
                precautions |-> OrEmptyArray(r, "precautions"),
                prevention |-> << >>])
    ELSE result

NormalizePart001(result) ==
    LET r1 == Backfill(result, "symptoms",
                  << "No critical symptoms detected.", "Standard skin texture observed." >>)
        r2 == Backfill(r1, "reasons",
                  << "Genetics", "Environmental factors", "Lifestyle choices" >>)
        r3 == Backfill(r2, "precautions", defaultAdvice)
        r4 == Backfill(r3, "prevention", defaultAdvice)
    IN  IF r4.isSkin = FALSE
        THEN Assign(r4,
               [isHealthy |-> FALSE, diseaseName |-> "No Skin Detected",
                description |-> << "The AI could not clearly identify human skin." >>,
                symptoms |-> << "Image blur", "Poor lighting", "Non-skin object" >>,
                reasons |-> << "Camera not focused", "Object is too far",
                               "Shadows obscuring details" >>,
                precautions |-> << "Use natural lighting", "Hold camera steady",
                                   "Focus on the skin area" >>])
        ELSE r4

Normalize(result) ==
    CASE variant = "geminiService.ts" -> NormalizeGemini(result)
      [] variant = "part_000" -> NormalizePart000(result)
      [] variant = "part_001" -> NormalizePart001(result)

\* The alert analyzeSkinImage raises on a parsed reply (geminiService.ts only).
ReplyAlerts(result) ==
    IF variant = "geminiService.ts" /\ result.isSkin = FALSE
    THEN << << "Analysis Warning: No human skin detected in this image." >> >>
    ELSE << >>

\* JSON.parse(content)
JSONparse(content) == [threw |-> ~content.json, value |-> content.value]

\* analyzeSkinImage from `const data = await tryGroqAnalysis(payload)` on.
AfterData(body) ==
    IF body.choices = << >>
    THEN CatchOutcome(EnvelopeTypeError)
    ELSE LET parsed == JSONparse(body.choices[1].message.content)
         IN  IF parsed.threw
             THEN CatchOutcome(ContentSyntaxError)
             ELSE Outcome(Fulfilled(Normalize(parsed.value)), ReplyAlerts(parsed.value))

-----------------------------------------------------------------------------
(* tryGroqAnalysis.                                                        *)

\* The list walked from its end: the weakest model is asked first.
NewAttemptReversed(i, url) ==
    [model |-> VISION_MODELS[Len(VISION_MODELS) + 1 - i], url |-> url, status |-> 0,
     errText |-> << >>, body |-> NotJsonBody]

\* An entry of the history: the model asked, and what came back.
\* status 0: no answer yet; -1: fetch rejected.
NewAttempt(i, url) ==
    [model |-> VISION_MODELS[i], url |-> url, status |-> 0,
     errText |-> << >>, body |-> NotJsonBody]

NoData == [returned |-> FALSE, value |-> NotJsonBody]
NotThrown == [threw |-> FALSE, value |-> Null]

\* The last entry of the history, changed.
Answered(change) ==
    [attempts EXCEPT ![Len(attempts)] = Assign(@, change)]

\* analyzeSkinImage settles: its promise, the alerts raised on the way.
Finish(outcome) ==
    /\ pc' = "done"
    /\ promise' = outcome.promise
    /\ alerts' = alerts \o outcome.alerts

\* One turn of the loop up to `await fetch(...)` for VISION_MODELS[i], the
\* payload carrying the image `url`.
Fetch(i, url, le, atts) ==
    /\ modelIdx' = i
    /\ lastError' = le
    /\ response' = 0
    /\ attempts' = Append(atts, NewAttempt(i, url))
    /\ pc' = "fetch"
    /\ UNCHANGED <<thrown, alerts, data, promise>>

\* tryGroqAnalysis throws e; the catch block of analyzeSkinImage takes it.
Throw(le, e, atts) ==
    /\ lastError' = le
    /\ attempts' = atts
    /\ thrown' = [threw |-> TRUE, value |-> e]
    /\ response' = 0
    /\ UNCHANGED <<modelIdx, data>>
    /\ Finish(CatchOutcome(e))

\* A turn that did not return asks the same model again.
ContinueRetries(le, atts) == Fetch(modelIdx, compressedImage, le, atts)

\* The end of a turn that did not return: the next model, or `throw lastError`.
Continue(le, atts) ==
    IF modelIdx < Len(VISION_MODELS)
    THEN Fetch(modelIdx + 1, compressedImage, le, atts)
    ELSE Throw(le, le, atts)

\* Catch without its rethrow: every captured error lets the loop go on.
CatchNeverRethrows(e, atts) == Continue(e, atts)

\* catch (e) { lastError = e; if (e.message.includes("API Key")) throw e; }
Catch(e, atts) ==
    IF includes(e.message, "API Key")
    THEN Throw(e, e, atts)
    ELSE Continue(e, atts)

\* The branch `if (!response.ok)` once the error body is read.
NotOk(status, errText, atts) ==
    IF status = 401 \/ status = 403
    THEN Catch(CredentialError, atts)
    ELSE IF status = 400 \/ status = 404
    THEN Continue(lastError, atts)
    ELSE Catch(GroqError(status, errText), atts)

\* Return without leaving the loop: the next model is asked all the same.
ReturnKeepsLooping(body, atts) == Continue(lastError, atts)

\* return await response.json(); analyzeSkinImage reads the reply and settles.
Return(body, atts) ==
    /\ attempts' = atts
    /\ data' = [returned |-> TRUE, value |-> body]
    /\ response' = 0
    /\ UNCHANGED <<modelIdx, lastError, thrown>>
    /\ Finish(AfterData(body))

-----------------------------------------------------------------------------
(* The steps of one invocation of analyzeSkinImage.                        *)

\* new Image(): no src yet, nothing decoded.
NewImage == [src |-> << >>, width |-> 0, height |-> 0, state |-> "new"]

\* document.createElement("canvas"): a canvas has its default size.
NewCanvas == [width |-> 300, height |-> 150]

\* compressImage is not being looked at on its own.
ImageIdle ==
    /\ base64Str = << >>
    /\ img = NewImage
    /\ canvas = NewCanvas
    /\ compressed = Pending

\* The values a state variable of the component can hold: null, a string,
\* an object with its own properties.
NullValue == [type |-> "null", text |-> << >>, props |-> EmptyObject]
StringValue(text) == [type |-> "string", text |-> text, props |-> EmptyObject]
ObjectValue(props) == [type |-> "object", text |-> << >>, props |-> props]

\* No ProgressionCompare is mounted.
CompareIdle ==
    /\ entries = << >>
    /\ idx1 = 0
    /\ idx2 = 0
    /\ report = NullValue
    /\ loading = FALSE
    /\ inflight = << >>
    /\ reportFor = << >>
    /\ mounted = FALSE

\* The locals of an invocation of analyzeSkinImage, and what it has done.
Locals(p, image, idx, le, resp, atts, thr, al, dat, prom) ==
    [pc |-> p, compressedImage |-> image, modelIdx |-> idx, lastError |-> le,
     response |-> resp, attempts |-> atts, thrown |-> thr, alerts |-> al,
     data |-> dat, promise |-> prom]

\* An invocation that has not run its first statement, parked at `at`.
Fresh(at) == Locals(at, "", 0, Null, 0, << >>, NotThrown, << >>, NoData, Pending)

\* There is no second invocation.
NoInvocation == Fresh("idle")

Init ==
    /\ ImageIdle
    /\ CompareIdle
    /\ parked = NoInvocation
    /\ variant \in Variants
    /\ GROQ_API_KEY \in {"", "gsk_key"}
    /\ pc = "start"
    /\ compressedImage = ""
    /\ modelIdx = 0
    /\ lastError = Null
    /\ response = 0
    /\ attempts = << >>
    /\ thrown = NotThrown
    /\ alerts = << >>
    /\ data = NoData
    /\ promise = Pending

\* if (!GROQ_API_KEY) { alert(...); return {...} }
CallWithoutKey ==
    /\ pc = "start"
    /\ GROQ_API_KEY = ""
    /\ Finish(KeyMissing)
    /\ UNCHANGED <<variant, GROQ_API_KEY, compressedImage, modelIdx, lastError,
                   response, attempts, thrown, data>>
    /\ UNCHANGED outsideService

\* The call without its credential check.
CallUnchecked ==
    /\ pc = "start"
    /\ pc' = "compressImage"
    /\ UNCHANGED <<variant, GROQ_API_KEY, compressedImage, modelIdx, lastError,
                   response, attempts, thrown, alerts, data, promise>>
    /\ UNCHANGED outsideService

\* await compressImage(base64Image)
CallWithKey ==
    /\ pc = "start"
    /\ GROQ_API_KEY # ""
    /\ pc' = "compressImage"
    /\ UNCHANGED <<variant, GROQ_API_KEY, compressedImage, modelIdx, lastError,
                   response, attempts, thrown, alerts, data, promise>>
    /\ UNCHANGED outsideService

\* compressImage resolves with `image`; the try block builds the payload and
\* tryGroqAnalysis runs to its first fetch.
Compressed(image) ==
    /\ pc = "compressImage"
    /\ compressedImage' = image
    /\ Fetch(1, image, Null, << >>)
    /\ UNCHANGED <<variant, GROQ_API_KEY>>
    /\ UNCHANGED outsideService

\* img.onload: the image is drawn and re-encoded.
ImgOnload == Compressed(toDataURL)

\* img.onerror: resolve(base64Str)
ImgOnerror == Compressed(base64Image)

\* fetch rejects: the transport failed.
FetchRejects ==
    /\ pc = "fetch"
    /\ Catch(NetworkError, Answered([status |-> -1]))
    /\ UNCHANGED <<variant, GROQ_API_KEY, compressedImage>>
    /\ UNCHANGED outsideService

\* fetch resolves with a Response of one of `statuses`; its body is read next.
FetchAnswers(statuses) ==
    /\ pc = "fetch"
    /\ \E status \in statuses :
         /\ response' = status
         /\ attempts' = Answered([status |-> status])
         /\ pc' = IF ok(status) THEN "json" ELSE "text"
    /\ UNCHANGED <<variant, GROQ_API_KEY, compressedImage, modelIdx, lastError,
                   thrown, alerts, data, promise>>
    /\ UNCHANGED outsideService

FetchResolves == FetchAnswers(Statuses)

\* await response.text() on a response that is not ok.  A transport failure
\* is the rejection of fetch (FetchRejects); the body of an answer that has
\* arrived is readable as text.
TextReads(errTexts) ==
    /\ pc = "text"
    /\ \E errText \in errTexts :
         NotOk(response, errText, Answered([errText |-> errText]))
    /\ UNCHANGED <<variant, GROQ_API_KEY, compressedImage>>
    /\ UNCHANGED outsideService

TextResolves == TextReads(ErrTexts)

\* await response.json() rejects: the body is not JSON.
JsonRejects ==
    /\ pc = "json"
    /\ Catch(BodySyntaxError, Answered([body |-> NotJsonBody]))
    /\ UNCHANGED <<variant, GROQ_API_KEY, compressedImage>>
    /\ UNCHANGED outsideService

\* return await response.json(); analyzeSkinImage reads the reply and returns.
JsonReads(bodies) ==
    /\ pc = "json"
    /\ \E body \in bodies :
         Return(body, Answered([body |-> body]))
    /\ UNCHANGED <<variant, GROQ_API_KEY, compressedImage>>
    /\ UNCHANGED outsideService

JsonResolves == JsonReads(OkBodies \ {NotJsonBody})

Next ==
    \/ CallWithoutKey
    \/ CallWithKey
    \/ ImgOnload
    \/ ImgOnerror
    \/ FetchRejects
    \/ FetchResolves
    \/ TextResolves
    \/ JsonRejects
    \/ JsonResolves

Spec == Init /\ [][Next]_vars

-----------------------------------------------------------------------------
(* Two invocations of analyzeSkinImage in flight at once.  The one that    *)
(* runs holds the service variables; the other is parked at its await.     *)
(* The answers are drawn from a smaller alphabet than in Spec: a rejected   *)
(* fetch (an error captured), 400 (a model skipped), 401 (the loop left), *)
(* 200 with a body that is or is not JSON.                                 *)

DuoStatuses == {200, 400, 401}
DuoErrTexts == { <<"model decommissioned">> }
DuoBodies == { Completion(JsonContent(Reply(TRUE, FALSE, TRUE, TRUE, {}, {}))) }

\* The invocation that holds the service variables.
Running ==
    Locals(pc, compressedImage, modelIdx, lastError, response, attempts, thrown,
           alerts, data, promise)

InitDuo ==
    /\ variant \in Variants
    /\ GROQ_API_KEY \in {"", "gsk_key"}
    /\ pc = "start"
    /\ compressedImage = ""
    /\ modelIdx = 0
    /\ lastError = Null
    /\ response = 0
    /\ attempts = << >>
    /\ thrown = NotThrown
    /\ alerts = << >>
    /\ data = NoData
    /\ promise = Pending
    /\ parked = Fresh("start")
    /\ ImageIdle
    /\ CompareIdle

\* The two invocations with `lastError` declared at module level: one cell
\* for both.
SwitchSharingLastError ==
    /\ parked.pc # "idle"
    /\ parked' = Running
    /\ pc' = parked.pc
    /\ compressedImage' = parked.compressedImage
    /\ modelIdx' = parked.modelIdx
    /\ response' = parked.response
    /\ attempts' = parked.attempts
    /\ thrown' = parked.thrown
    /\ alerts' = parked.alerts
    /\ data' = parked.data
    /\ promise' = parked.promise
    /\ UNCHANGED <<variant, GROQ_API_KEY, lastError, imageVars, compareVars>>

\* The running invocation is at an await and the event loop resumes the
\* other one: each continuation finds its own locals.
Switch ==
    /\ parked.pc # "idle"
    /\ parked' = Running
    /\ pc' = parked.pc
    /\ compressedImage' = parked.compressedImage
    /\ modelIdx' = parked.modelIdx
    /\ lastError' = parked.lastError
    /\ response' = parked.response
    /\ attempts' = parked.attempts
    /\ thrown' = parked.thrown
    /\ alerts' = parked.alerts
    /\ data' = parked.data
    /\ promise' = parked.promise
    /\ UNCHANGED <<variant, GROQ_API_KEY, imageVars, compareVars>>

DuoFetchResolves == FetchAnswers(DuoStatuses)
DuoTextResolves == TextReads(DuoErrTexts)
DuoJsonResolves == JsonReads(DuoBodies)

NextDuo ==
    \/ CallWithoutKey
    \/ CallWithKey
    \/ ImgOnload
    \/ ImgOnerror
    \/ FetchRejects
    \/ DuoFetchResolves
    \/ DuoTextResolves
    \/ JsonRejects
    \/ DuoJsonResolves
    \/ Switch

SpecDuo == InitDuo /\ [][NextDuo]_vars

-----------------------------------------------------------------------------
(* compressImage on its own: the decoded size comes from the image data.   *)

\* Largest decoded width and height looked at.
MaxImgWidth == 2050
MaxImgHeight == 6

\* maxWidth = 1024, the default of the parameter.
maxWidth == 1024

\* The strings handed to compressImage: bare base64, a data URL, nothing.
Base64Strs ==
    { <<"AAAA">>, <<"data:", "image/png;base64,", "AAAA">>, << >> }

\* base64Str.startsWith("data:")
startsWith(str, prefix) == Len(str) > 0 /\ str[1] = prefix

\* canvas.toDataURL("image/jpeg", quality)
canvasDataURL == <<"data:", "image/jpeg;base64,", "ZZZZ">>

\* Math.floor(n / d) for a positive d.
MathFloor(n, d) == n \div d

\* Math.round(n / d) for a positive d: halves go up.
MathRound(n, d) == (2 * n + d) \div (2 * d)

\* The resize logic of img.onload.
Resize(width, height) ==
    IF width > maxWidth
    THEN [width |-> maxWidth, height |-> MathRound(height * maxWidth, width)]
    ELSE [width |-> width, height |-> height]

\* No invocation of analyzeSkinImage is in flight.
ServiceIdle ==
    /\ GROQ_API_KEY = "gsk_key"
    /\ pc = "idle"
    /\ compressedImage = ""
    /\ modelIdx = 0
    /\ lastError = Null
    /\ response = 0
    /\ attempts = << >>
    /\ thrown = NotThrown
    /\ alerts = << >>
    /\ data = NoData
    /\ promise = Pending

InitCompress ==
    /\ variant = "geminiService.ts"
    /\ ServiceIdle
    /\ CompareIdle
    /\ parked = NoInvocation
    /\ base64Str \in Base64Strs
    /\ img = NewImage
    /\ canvas = NewCanvas
    /\ compressed = Pending

\* compressImage(base64Str): the executor sets img.src and both handlers.
CompressImage ==
    /\ img.state = "new"
    /\ img' = [img EXCEPT
                 !.src = IF startsWith(base64Str, "data:")
                         THEN base64Str
                         ELSE <<"data:", "image/jpeg;base64,">> \o base64Str,
                 !.state = "loading"]
    /\ UNCHANGED <<base64Str, canvas, compressed>>
    /\ UNCHANGED outsideImage

\* img.onerror that rejects instead of handing the input back.
OnerrorRejects ==
    /\ img.state = "loading"
    /\ img' = [img EXCEPT !.state = "broken"]
    /\ compressed' = Rejected(Error(<<"image failed to load">>))
    /\ UNCHANGED <<base64Str, canvas>>
    /\ UNCHANGED outsideImage

\* img.onload: size the canvas, draw, resolve with the re-encoded picture.
Onload ==
    /\ img.state = "loading"
    /\ \E width \in 1..MaxImgWidth, height \in 1..MaxImgHeight :
         /\ img' = [img EXCEPT !.width = width, !.height = height, !.state = "loaded"]
         /\ canvas' = Resize(width, height)
    /\ compressed' = Fulfilled(canvasDataURL)
    /\ UNCHANGED base64Str
    /\ UNCHANGED outsideImage

\* img.onerror = () => resolve(base64Str)
Onerror ==
    /\ img.state = "loading"
    /\ img' = [img EXCEPT !.state = "broken"]
    /\ compressed' = Fulfilled(base64Str)
    /\ UNCHANGED <<base64Str, canvas>>
    /\ UNCHANGED outsideImage

NextCompress ==
    \/ CompressImage
    \/ Onload
    \/ Onerror

SpecCompress == InitCompress /\ [][NextCompress]_vars

-----------------------------------------------------------------------------
(* The ProgressionCompare component and the compareProgression it awaits.  *)

\* Longest timeline looked at.
MaxEntries == 4

\* The service modules that export compareProgression.
CompareVariants == {"geminiService.ts", "part_000"}

\* compareProgression(img1, img2): the value its promise resolves with.
compareProgression(img1, img2) ==
    IF variant = "geminiService.ts"
    THEN StringValue(<<"Progression analysis is currently simplified for this demo.">>)
    ELSE StringValue(<<"Progression analysis ready.">>)

\* The timelines the parent can hand over: runs of consecutive entries,
\* each entry standing for its imageData.
EntryLists ==
    { [i \in 1..n |-> k + i] : <<k, n>> \in
        { y \in (0..MaxEntries) \X (0..MaxEntries) : y[1] + y[2] <= MaxEntries } }

\* idx is an index of ents (counted from 0, as in the code).
ValidIdx(ents, idx) == idx \in 0..(Len(ents) - 1)

\* A render with at least two entries reads entries[idx1].imageData and
\* entries[idx2].imageData, then report.verdict and report.changes.map(...):
\* a TypeError when an index has no entry, or when report is set and has no
\* `changes`.
RenderThrows(ents, i1, i2, rep) ==
    /\ Len(ents) >= 2
    /\ \/ ~ValidIdx(ents, i1)
       \/ ~ValidIdx(ents, i2)
       \/ rep.type # "null" /\ ~Has(rep.props, "changes")

\* The component is on screen with its two selects and its button.
Shown == mounted /\ Len(entries) >= 2

\* The first render: idx1 = 0, idx2 = entries.length - 1.
InitCompare ==
    /\ variant \in CompareVariants
    /\ ServiceIdle
    /\ ImageIdle
    /\ parked = NoInvocation
    /\ entries \in EntryLists
    /\ idx1 = 0
    /\ idx2 = Len(entries) - 1
    /\ report = NullValue
    /\ loading = FALSE
    /\ inflight = << >>
    /\ reportFor = << >>
    /\ mounted = TRUE

\* onChange of the first select: setIdx1(Number(e.target.value))
SetIdx1 ==
    /\ Shown
    /\ \E i \in 0..(Len(entries) - 1) : idx1' = i
    /\ UNCHANGED <<entries, idx2, report, loading, inflight, reportFor, mounted>>
    /\ UNCHANGED outsideCompare

\* onChange of the second select: setIdx2(Number(e.target.value))
SetIdx2 ==
    /\ Shown
    /\ \E i \in 0..(Len(entries) - 1) : idx2' = i
    /\ UNCHANGED <<entries, idx1, report, loading, inflight, reportFor, mounted>>
    /\ UNCHANGED outsideCompare

\* The parent renders the component with another entries array: the render
\* comes first, with idx1 and idx2 as they are; the effect that resets them
\* runs once that render is committed.
EntriesReplaced ==
    /\ mounted
    /\ \E ents \in EntryLists :
         /\ entries' = ents
         /\ IF RenderThrows(ents, idx1, idx2, report)
            THEN /\ mounted' = FALSE
                 /\ UNCHANGED <<idx1, idx2>>
            ELSE /\ mounted' = TRUE
                 /\ IF Len(ents) >= 2
                    THEN idx1' = 0 /\ idx2' = Len(ents) - 1
                    ELSE UNCHANGED <<idx1, idx2>>
    /\ UNCHANGED <<report, loading, inflight, reportFor>>
    /\ UNCHANGED outsideCompare

\* handleCompare without its guards: any click starts a comparison.
HandleCompareUnguarded ==
    /\ Shown
    /\ loading' = TRUE
    /\ report' = NullValue
    /\ reportFor' = << >>
    /\ inflight' = Append(inflight, [img1 |-> entries[idx1 + 1],
                                     img2 |-> entries[idx2 + 1]])
    /\ UNCHANGED <<entries, idx1, idx2, mounted>>
    /\ UNCHANGED outsideCompare

\* A click on the button (enabled unless loading || idx1 === idx2) runs
\* handleCompare up to its await.
HandleCompare ==
    /\ Shown
    /\ ~loading
    /\ idx1 # idx2
    /\ loading' = TRUE
    /\ report' = NullValue
    /\ reportFor' = << >>
    /\ inflight' = Append(inflight, [img1 |-> entries[idx1 + 1],
                                     img2 |-> entries[idx2 + 1]])
    /\ UNCHANGED <<entries, idx1, idx2, mounted>>
    /\ UNCHANGED outsideCompare

\* handleCompare without its finally block.
CompareResolvesKeepsLoading ==
    /\ inflight # << >>
    /\ LET call == Head(inflight)
           result == compareProgression(call.img1, call.img2)
       IN  /\ inflight' = Tail(inflight)
           /\ report' = result
           /\ reportFor' = <<call.img1, call.img2>>
           /\ mounted' = (mounted /\ ~RenderThrows(entries, idx1, idx2, result))
    /\ UNCHANGED <<entries, idx1, idx2, loading>>
    /\ UNCHANGED outsideCompare

\* The awaited promise is fulfilled (compareProgression has no path that
\* rejects): setReport(result), finally setLoading(false), and the render
\* that follows.  The state variables hold what the setters were last given,
\* also for a component whose render has thrown.
CompareResolves ==
    /\ inflight # << >>
    /\ LET call == Head(inflight)
           result == compareProgression(call.img1, call.img2)
       IN  /\ inflight' = Tail(inflight)
           /\ report' = result
           /\ reportFor' = <<call.img1, call.img2>>
           /\ loading' = FALSE
           /\ mounted' = (mounted /\ ~RenderThrows(entries, idx1, idx2, result))
    /\ UNCHANGED <<entries, idx1, idx2>>
    /\ UNCHANGED outsideCompare

NextCompare ==
    \/ SetIdx1
    \/ SetIdx2
    \/ EntriesReplaced
    \/ HandleCompare
    \/ CompareResolves

SpecCompare == InitCompare /\ [][NextCompare]_vars

\* A settled promise's continuation is a microtask: it runs.
SpecCompareFair == SpecCompare /\ WF_vars(CompareResolves)

-----------------------------------------------------------------------------
(* Vocabulary of the properties.                                           *)

Done == pc = "done"
Resolved == promise.state = "fulfilled"
record == promise.value

\* Attempt i came back with `status` and its body has been read.
Returned(i, status) ==
    /\ attempts[i].status = status
    /\ IF ok(status) THEN attempts[i].body.json ELSE attempts[i].errText # << >>

\* Every model before attempt i answered 400 or 404.
SkippedBefore(i) == \A j \in 1..(i - 1) : attempts[j].status \in {400, 404}

\* tryGroqAnalysis returned a chat completion whose content is JSON.
ReplyParsed ==
    /\ data.returned
    /\ data.value.choices # << >>
    /\ data.value.choices[1].message.content.json

\* The object JSON.parse made of the reply.
reply == data.value.choices[1].message.content.value

-----------------------------------------------------------------------------
(* C1. The promise of analyzeSkinImage never rejects: whatever the models   *)
(* answer, a settled invocation has resolved to a value.                    *)
C1_NeverRejects == Done => Resolved

(* C2. When tryGroqAnalysis throws after the list is exhausted, what it     *)
(* throws is the error of the last failure, whatever its kind, never null.  *)
C2_ThrowsCapturedError ==
    (thrown.threw /\ Len(attempts) = Len(VISION_MODELS)) =>
        LET last == attempts[Len(attempts)]
        IN  /\ thrown.value # Null
            /\ last.status = -1 => thrown.value = NetworkError
            /\ last.status = 200 => thrown.value = BodySyntaxError
            /\ last.status \in {401, 403} => thrown.value = CredentialError
            /\ last.status \in {429, 500} =>
                   thrown.value = GroqError(last.status, last.errText)

(* C3. A non-success status other than 400, 401, 403, 404 aborts the        *)
(* cascade with that error: the attempt is the last one and tryGroqAnalysis *)
(* has thrown the Groq error built from its status and body.                *)
C3_OtherStatusAborts ==
    \A i \in DOMAIN attempts : \A status \in Statuses \ {200, 400, 401, 403, 404} :
        Returned(i, status) =>
            /\ i = Len(attempts)
            /\ thrown = [threw |-> TRUE, value |-> GroqError(status, attempts[i].errText)]

C5_First200Wins ==
    \A i \in DOMAIN attempts :
        (SkippedBefore(i) /\ attempts[i].status = 200 /\ pc # "json") =>
            /\ i = Len(attempts)
            /\ data = [returned |-> TRUE, value |-> attempts[i].body]

(* C5 amended. After a prefix of 400/404 answers, a model answering 200     *)
(* with a body that parses as JSON ends the cascade: tryGroqAnalysis        *)
(* returns exactly that body, throws nothing, and no later model is asked.  *)
C5_FirstParsed200Wins ==
    \A i \in DOMAIN attempts :
        (SkippedBefore(i) /\ Returned(i, 200)) =>
            /\ i = Len(attempts)
            /\ data = [returned |-> TRUE, value |-> attempts[i].body]
            /\ ~thrown.threw
            /\ Done

\* The second model answered 200 after a 404, one model was left unasked.
C5_Witness ==
    /\ Len(attempts) = 2
    /\ Returned(1, 404)
    /\ Returned(2, 200)
    /\ data.returned

(* C6. A returned record with isSkin false has isHealthy false and          *)
(* non-empty reasons and precautions.                                       *)
C6_RejectionIsExplained ==
    (Done /\ Resolved /\ record.isSkin = FALSE) =>
        /\ record.isHealthy = FALSE
        /\ HasLength(record, "reasons")
        /\ HasLength(record, "precautions")

(* C7. A returned record with isSkin true has non-empty treatments and      *)
(* precautions.                                                             *)
C7_SkinHasGuidance ==
    (Done /\ Resolved /\ record.isSkin = TRUE) =>
        /\ HasLength(record, "treatments")
        /\ HasLength(record, "precautions")

(* C8. Without a credential no image is preprocessed and no request is      *)
(* issued, and the invocation returns isSkin = false, diseaseName "Error".  *)
C8_NoKeyNoNetwork ==
    GROQ_API_KEY = "" =>
        /\ pc \in {"start", "done"}
        /\ compressedImage = ""
        /\ attempts = << >>
        /\ Done => /\ Resolved
                   /\ record.isSkin = FALSE
                   /\ record.diseaseName = "Error"

\* The invocation without a credential has returned.
C8_Witness == GROQ_API_KEY = "" /\ Done /\ Resolved

\* The reply carries content in each of its six guidance arrays.
WellFormedReply == ReplyParsed /\ \A k \in ArrayKeys : HasLength(reply, k)

failure ==
    IF thrown.threw THEN thrown.value
    ELSE IF data.value.choices = << >> THEN EnvelopeTypeError
    ELSE ContentSyntaxError

\* The text `description` holds `message` within it.
Carries(description, message) ==
    /\ message # << >>
    /\ \E i \in 1..Len(description) :
         /\ i + Len(message) - 1 <= Len(description)
         /\ SubSeq(description, i, i + Len(message) - 1) = message

(* C10. When the cascade fails or the reply cannot be parsed, the record    *)
(* returned has isSkin and isHealthy false, a diagnostic diseaseName, a     *)
(* description carrying the error's message, and all six guidance arrays    *)
(* present and empty.                                                       *)
C10_FallbackRecord ==
    (Done /\ (thrown.threw \/ (data.returned /\ ~ReplyParsed))) =>
        /\ Resolved
        /\ record.isSkin = FALSE
        /\ record.isHealthy = FALSE
        /\ record.diseaseName \in {"Analysis Error", "Analysis Failed"}
        /\ Carries(record.description, failure.message)
        /\ \A k \in ArrayKeys : Has(record, k) /\ record[k] = << >>

-----------------------------------------------------------------------------
(* C14..C20: the cascade's order and the shape of the returned record.     *)

\* The request of attempt i is still in flight (no answer, or its body unread).
Outstanding(i) == i = Len(attempts) /\ pc \in {"fetch", "text", "json"}

\* Attempt i is over: fetch rejected, or a status came and its body was read.
FullyResolved(i) ==
    /\ attempts[i].status # 0
    /\ attempts[i].status \notin {-1, 200} => attempts[i].errText # << >>
    /\ ~Outstanding(i)

(* C14. Models are asked in the order of VISION_MODELS, one at a time: the  *)
(* i-th request goes to the i-th model, and every request but the last one  *)
(* issued is over (status and body read, or fetch rejected).                *)
C14_SequentialInOrder ==
    /\ Len(attempts) <= Len(VISION_MODELS)
    /\ \A i \in DOMAIN attempts :
         /\ attempts[i].model = VISION_MODELS[i]
         /\ i < Len(attempts) => FullyResolved(i)
    /\ Cardinality({i \in DOMAIN attempts : ~FullyResolved(i)}) <= 1

\* The third model is being asked after the first two were answered.
C14_Witness ==
    /\ Len(attempts) = 3
    /\ pc = "fetch"
    /\ FullyResolved(1) /\ FullyResolved(2)

(* C15. No model is asked twice: at most |VISION_MODELS| requests are       *)
(* issued, and once the last model's request is over tryGroqAnalysis has    *)
(* either returned a response or thrown.                                    *)
C15_NoRetries ==
    /\ Len(attempts) <= Len(VISION_MODELS)
    /\ \A i, j \in DOMAIN attempts : attempts[i].model = attempts[j].model => i = j
    /\ (Len(attempts) = Len(VISION_MODELS) /\ FullyResolved(Len(attempts))) =>
           (Done /\ (data.returned # thrown.threw))

\* All models were asked once each and tryGroqAnalysis threw.
C15_Witness ==
    /\ Done
    /\ Len(attempts) = Len(VISION_MODELS)
    /\ thrown.threw

\* tryGroqAnalysis threw while models remained unasked.
StoppedEarly == thrown.threw /\ Len(attempts) < Len(VISION_MODELS)

\* A rejected fetch is captured and the next model is asked (or, after the
\* last model, the captured error is thrown).
TransportErrorContinues ==
    \A i \in DOMAIN attempts :
        attempts[i].status = -1 =>
            /\ i < Len(VISION_MODELS) =>
                   /\ Len(attempts) > i
                   /\ (Len(attempts) = i + 1 /\ pc = "fetch") => lastError = NetworkError
            /\ i = Len(VISION_MODELS) => thrown = [threw |-> TRUE, value |-> NetworkError]

(* C16. A rejected fetch is captured and the next model is asked;           *)
(* the loop stops early on a captured error only when the error arose from  *)
(* a 401/403 answer.                                                        *)
C16_StopsEarlyOnlyOnCredential ==
    /\ TransportErrorContinues
    /\ StoppedEarly => attempts[Len(attempts)].status \in {401, 403}

\* What the catch clause does: the loop stops early exactly on a captured
\* error whose message contains "API Key", be it the credential error of a
\* 401/403 answer or the Groq error of another status whose body says so.
ApiKeyMessageStops ==
    StoppedEarly =>
        LET last == attempts[Len(attempts)]
        IN  /\ includes(thrown.value.message, "API Key")
            /\ \/ last.status \in {401, 403}
               \/ /\ last.status \in Statuses \ {200, 400, 401, 403, 404}
                  /\ includes(last.errText, "API Key")

(* C17. For a reply with isSkin false the returned record has treatments,   *)
(* medicines and prevention empty, whatever the model put there.            *)
C17_NonSkinHasNoTreatment ==
    (Done /\ ReplyParsed /\ reply.isSkin = FALSE) =>
        /\ Resolved
        /\ \A k \in {"treatments", "medicines", "prevention"} :
             Has(record, k) /\ record[k] = << >>

(* C18. For a reply with isSkin false, a diseaseName or description the     *)
(* model supplied is preserved; the defaults stand in only for a missing    *)
(* or empty one.                                                            *)
C18_DefaultsOnlyIfAbsent ==
    (Done /\ ReplyParsed /\ reply.isSkin = FALSE) =>
        /\ Resolved
        /\ record.diseaseName = OrDefault(reply, "diseaseName", "", "No Skin Detected")
        /\ Has(reply, "description") /\ reply.description # << >> =>
               record.description = reply.description
        /\ Has(record, "description") /\ record.description # << >>

(* C20. Every record analyzeSkinImage returns has all six guidance arrays   *)
(* present.                                                                 *)
C20_RecordIsWellFormed ==
    (Done /\ Resolved) => \A k \in ArrayKeys : Has(record, k)

-----------------------------------------------------------------------------
(* C12, C13: compressImage.                                                *)

(* C12. A decoded image wider than maxWidth is drawn maxWidth wide, its     *)
(* height the integer nearest to height * maxWidth / width (a half goes     *)
(* up); an image no wider than maxWidth keeps both dimensions.              *)
C12_ResizedDimensions ==
    img.state = "loaded" =>
        IF img.width > maxWidth
        THEN /\ canvas.width = maxWidth
             /\ 2 * img.width * canvas.height <= 2 * img.height * maxWidth + img.width
             /\ 2 * img.height * maxWidth + img.width < 2 * img.width * (canvas.height + 1)
        ELSE /\ canvas.width = img.width
             /\ canvas.height = img.height

\* A 2048 x 1 image: the scaled height 0.5 is rounded up to 1.
C12_Witness ==
    /\ img.state = "loaded"
    /\ img.width = 2 * maxWidth /\ img.height = 1
    /\ canvas = [width |-> maxWidth, height |-> 1]
    /\ compressed.state = "fulfilled"

(* C13. compressImage never rejects: once the image has loaded or failed    *)
(* the promise is fulfilled, and after a failed decode its value is the     *)
(* input string itself.                                                     *)
C13_AlwaysResolves ==
    /\ compressed.state # "rejected"
    /\ img.state \in {"loaded", "broken"} => compressed.state = "fulfilled"
    /\ img.state = "broken" => compressed.value = base64Str

\* Bare base64 that does not decode: the input comes back, not img.src.
C13_Witness ==
    /\ img.state = "broken"
    /\ base64Str = <<"AAAA">>
    /\ img.src # base64Str
    /\ compressed = Fulfilled(base64Str)

-----------------------------------------------------------------------------
(* C11: what compareProgression hands to ProgressionCompare.               *)

Verdicts == {"IMPROVED", "WORSENED", "STABLE", "UNCLEAR", "MISMATCH"}

(* C11. Whenever a comparison has resolved, the report is a record whose    *)
(* verdict is one of the five verdicts and whose changes and recommendation *)
(* are non-empty, and the component renders it.                             *)
C11_ReportIsComparisonResult ==
    report.type # "null" =>
        /\ report.type = "object"
        /\ Has(report.props, "verdict") /\ report.props.verdict \in Verdicts
        /\ Has(report.props, "changes") /\ report.props.changes # << >>
        /\ Has(report.props, "recommendation") /\ report.props.recommendation # << >>
        /\ mounted

-----------------------------------------------------------------------------
(* C19: two invocations in flight.                                         *)

\* The error the loop holds after the first i answers of the history atts.
RECURSIVE Captured(_, _)
Captured(atts, i) ==
    IF i = 0 THEN Null
    ELSE CASE atts[i].status = -1 -> NetworkError
           [] atts[i].status \in {401, 403} -> CredentialError
           [] atts[i].status \in {400, 404} -> Captured(atts, i - 1)
           [] atts[i].status = 200 -> BodySyntaxError
           [] OTHER -> GroqError(atts[i].status, atts[i].errText)

\* What the invocation x holds and returns follows from its own image and
\* from the answers to its own requests.
OwnResult(x) ==
    LET n == Len(x.attempts)
    IN  /\ \A i \in 1..n :
             /\ x.attempts[i].url = x.compressedImage
             /\ x.attempts[i].model = VISION_MODELS[i]
        /\ x.pc \in {"fetch", "text", "json"} =>
               x.lastError = Captured(x.attempts, n - 1)
        /\ (x.pc = "done" /\ n = 0) => x.promise = KeyMissing.promise
        /\ (x.pc = "done" /\ n > 0) =>
               IF x.attempts[n].status = 200 /\ x.attempts[n].body.json
               THEN /\ x.data = [returned |-> TRUE, value |-> x.attempts[n].body]
                    /\ ~x.thrown.threw
                    /\ x.promise = AfterData(x.attempts[n].body).promise
               ELSE /\ x.thrown = [threw |-> TRUE, value |-> Captured(x.attempts, n)]
                    /\ x.promise = CatchOutcome(Captured(x.attempts, n)).promise

(* C19. With two invocations interleaved at their awaits, each one's        *)
(* requests, captured error and result follow from its own image and its    *)
(* own answers alone, and no step writes the credential or the model list.  *)
C19_InvocationsIndependent ==
    [][ /\ variant' = variant
        /\ GROQ_API_KEY' = GROQ_API_KEY
        /\ OwnResult(Running)'
        /\ OwnResult(parked)' ]_vars

\* Both invocations are over, having asked every model in turn: one was
\* skipped by all of them and threw null, the other threw the error of its
\* rejected first fetch.
C19_Witness ==
    /\ pc = "done" /\ parked.pc = "done"
    /\ Len(attempts) = Len(VISION_MODELS) /\ Len(parked.attempts) = Len(VISION_MODELS)
    /\ \A i \in DOMAIN attempts : attempts[i].status = 400
    /\ thrown.value = Null
    /\ parked.attempts[1].status = -1
    /\ \A i \in 2..Len(parked.attempts) : parked.attempts[i].status = 400
    /\ parked.thrown.value = NetworkError
    /\ compressedImage # parked.compressedImage

-----------------------------------------------------------------------------
(* C21..C24: the ProgressionCompare component.                             *)

C22_IndicesValid ==
    Len(entries) >= 2 => ValidIdx(entries, idx1) /\ ValidIdx(entries, idx2)

(* C23. compareProgression is never called with one entry on both sides,    *)
(* and no click starts a comparison while one is awaited: at most one call  *)
(* is outstanding, and loading is true while it is.                         *)
C23_OneComparisonAtATime ==
    /\ Len(inflight) <= 1
    /\ \A i \in DOMAIN inflight : inflight[i].img1 # inflight[i].img2
    /\ inflight # << >> => loading

\* A comparison is awaited and the selects were moved to one and the same
\* entry meanwhile.
C23_Witness ==
    /\ Len(inflight) = 1
    /\ Shown
    /\ idx1 = idx2
    /\ loading

====
